---- MODULE Spec2Model ----
(***************************************************************************)
(* The resumable batch loops of transcribe_scenes: split_video.py and      *)
(* transcribe.py.  Both scan an input folder, skip what the CSV ledger     *)
(* already names, ask the external collaborators (scene detector, image    *)
(* extractor, splitter, audio demuxer, speech recogniser) for artifacts    *)
(* and append rows to the ledger.                                          *)
(*                                                                         *)
(* Strings are sequences of one-character strings, so that endswith,       *)
(* os.path.splitext, os.path.join, str and zfill are computed and not      *)
(* assumed.  The filesystem is the set of directories, the set of artifact *)
(* files (each remembering the input file and scene it was made from) and  *)
(* the ledger's rows on disk.  One behaviour is a sequence of invocations  *)
(* of one program on one input folder and one output folder.               *)
(***************************************************************************)
EXTENDS Integers, Sequences, FiniteSets, TLC

\* Most scenes the detector returns for one video.
MaxScenes == 2

----------------------------------------------------------------------------
\* Strings

EXT_MP4 == <<".", "m", "p", "4">>
EXT_AVI == <<".", "a", "v", "i">>
EXT_MOV == <<".", "m", "o", "v">>
EXT_MKV == <<".", "m", "k", "v">>
EXT_TXT == <<".", "t", "x", "t">>
EXT_JPG == <<".", "j", "p", "g">>
EXT_MP3 == <<".", "m", "p", "3">>

\* The tuple given to str.endswith by both scanners.
VIDEO_SUFFIXES == {EXT_MP4, EXT_AVI, EXT_MOV, EXT_MKV}

\* str.endswith with one suffix.
EndsWith(s, suf) ==
    /\ Len(s) >= Len(suf)
    /\ SubSeq(s, Len(s) - Len(suf) + 1, Len(s)) = suf

\* str.endswith with a tuple of suffixes.
EndsWithAny(s, sufs) == \E suf \in sufs : EndsWith(s, suf)

\* os.path.splitext of a name without separators: split at the last dot,
\* unless only dots precede it.
splitext(p) ==
    LET dots == {j \in 1..Len(p) : p[j] = "."}
        d == IF dots = {} THEN 0 ELSE CHOOSE j \in dots : \A k \in dots : k <= j
    IN IF d > 0 /\ \E j \in 1..(d - 1) : p[j] # "."
       THEN <<SubSeq(p, 1, d - 1), SubSeq(p, d, Len(p))>>
       ELSE <<p, <<>>>>

\* os.path.join of two components.
join(a, b) == a \o <<"/">> \o b

Digits == <<"0", "1", "2", "3", "4", "5", "6", "7", "8", "9">>

RECURSIVE str(_)
\* str of a natural number.
str(n) == IF n < 10 THEN <<Digits[n + 1]>> ELSE str(n \div 10) \o <<Digits[(n % 10) + 1]>>

RECURSIVE zfill(_, _)
\* str.zfill of a string without sign.
zfill(s, width) == IF Len(s) >= width THEN s ELSE zfill(<<"0">> \o s, width)

\* Whether path p is directory d or lies below it.
IsUnder(p, d) ==
    \/ p = d
    \/ Len(p) > Len(d) /\ SubSeq(p, 1, Len(d) + 1) = d \o <<"/">>

\* os.makedirs: the directory and its missing parents.
makedirs(ds, p) ==
    ds \cup {p} \cup {SubSeq(p, 1, j - 1) : j \in {k \in 1..Len(p) : p[k] = "/"}}

\* Writing (or overwriting) the file at path with content made from origin.
WriteFile(fs, path, origin) ==
    {f \in fs : f.path # path} \cup {[path |-> path, from |-> origin]}

\* shutil.rmtree on the files and on the directories.
rmtreeFiles(fs, d) == {f \in fs : ~IsUnder(f.path, d)}
rmtreeDirs(ds, d) == {p \in ds : ~IsUnder(p, d)}

----------------------------------------------------------------------------
\* Inputs

NAME_A == <<"a">>
NAME_B == <<"b">>
NAME_C == <<"c">>
NAME_NOTES == <<"n", "o", "t", "e", "s">>

\* The input folders tried: a video beside a file that is no video, two videos
\* with one bare name, two videos with the other two suffixes.
InputFolders ==
    { {NAME_A \o EXT_MP4, NAME_NOTES \o EXT_TXT},
      {NAME_A \o EXT_MP4, NAME_A \o EXT_MKV},
      {NAME_B \o EXT_AVI, NAME_C \o EXT_MOV} }

\* os.listdir: the names in arbitrary order, each once.
Listings(d) ==
    {l \in [1..Cardinality(d) -> d] : \A i, j \in 1..Cardinality(d) : l[i] = l[j] => i = j}

\* The scene list of k scenes: (start, end) pairs in temporal order.
SceneList(k) == [i \in 1..k |-> <<i - 1, i>>]

\* The scene lists a video can hold.
SceneLists == {SceneList(k) : k \in 0..MaxScenes}

\* SceneManager.get_scene_list on a video in which the detector finds the
\* scenes found: with start_in_scene a video without a cut is one scene,
\* without it the list is empty.
get_scene_list(found, start_in_scene) ==
    IF found = <<>> /\ start_in_scene THEN SceneList(1) ELSE found

TEXT_HI == <<"h", "i">>
NO_TRANSCRIPTION_FOUND == <<"N", "O", " ", "T", "R", "A", "N", "S", "C", "R", "I", "P", "T", "I", "O", "N", " ", "F", "O", "U", "N", "D">>

\* What the speech recogniser returns: a mapping with recognised text, with
\* empty text, or without a text entry.
TranscriberResults ==
    { [text |-> TEXT_HI], [text |-> <<>>], [chunks |-> <<>>] }

\* dict.get(key, default)
get(res, key, default) == IF key \in DOMAIN res THEN res[key] ELSE default

----------------------------------------------------------------------------
\* State

VARIABLES
    program,      \* which program every invocation of the behaviour runs
    inputDir,     \* the names in the input folder
    footage,      \* per input file, the scenes the detector finds in it
    recognised,   \* what the speech recogniser returns for the scenes of these videos
    dirs,         \* directories that exist
    files,        \* artifact files that exist: [path, from]
    csvExists,    \* whether the ledger file exists
    ledger,       \* the ledger's rows on disk, header included
    pc,           \* where the running invocation stands; "idle" between invocations
    done,         \* transcribe.py: the first column of the ledger, as read by init_folder
    processed_videos, \* split_video.py: the set of names read from the ledger
    vids,         \* the list iterated by the file loop (todo in transcribe.py)
    idx,          \* position of the file loop in vids
    scene_list,   \* the detector's scenes of the current file
    sc,           \* position of the scene loop or of the row-writing loop
    rows,         \* transcribe.py: the rows buffered for the current file
    buf,          \* rows given to the csv writer and not yet on disk
    outcome,      \* how the latest invocation ended, "running" while it runs
    prevOutcome,  \* how the invocation before it ended
    clean,        \* whether every invocation so far ran to completion
    ledger0,      \* the ledger when the running (or latest) invocation started
    fileStart,    \* the rows written (on disk or buffered) when the current file began
    started       \* the files whose processing the invocation has begun, in order

fsVars == <<dirs, files, csvExists, ledger>>
locals == <<done, processed_videos, vids, idx, scene_list, sc, rows, buf>>
history == <<outcome, prevOutcome, clean, ledger0, fileStart, started>>
inputs == <<program, inputDir, footage, recognised>>
vars == <<inputs, fsVars, pc, locals, history>>

Programs == {"transcribe.py", "split_video.py", "split_video_scenes"}

\* args.output of transcribe.py, output_folder of split_video_scenes.
OUT == <<"o", "u", "t">>
VIDEOS == <<"v", "i", "d", "e", "o", "s">>
IMAGES == <<"i", "m", "a", "g", "e", "s">>
SCENES == <<"s", "c", "e", "n", "e", "s">>
AUDIO == <<"a", "u", "d", "i", "o">>

Init ==
    /\ program \in Programs
    /\ inputDir \in InputFolders
    /\ footage \in [inputDir -> SceneLists]
    /\ recognised \in TranscriberResults
    /\ dirs = {}
    /\ files = {}
    /\ csvExists = FALSE
    /\ ledger = <<>>
    /\ pc = "idle"
    /\ done = <<>>
    /\ processed_videos = {}
    /\ vids = <<>>
    /\ idx = 0
    /\ scene_list = <<>>
    /\ sc = 0
    /\ rows = <<>>
    /\ buf = <<>>
    /\ outcome = "none"
    /\ prevOutcome = "none"
    /\ clean = TRUE
    /\ ledger0 = <<>>
    /\ fileStart = <<>>
    /\ started = <<>>

\* The locals of an invocation that has ended.
ResetLocals ==
    /\ done' = <<>>
    /\ processed_videos' = {}
    /\ vids' = <<>>
    /\ idx' = 0
    /\ scene_list' = <<>>
    /\ sc' = 0
    /\ rows' = <<>>
    /\ buf' = <<>>

\* The invocation ends with result how, the ledger file left with rows onDisk.
EndRun(how, onDisk) ==
    /\ pc' = "idle"
    /\ ledger' = onDisk
    /\ outcome' = how
    /\ clean' = (clean /\ how = "completed")
    /\ ResetLocals
    /\ UNCHANGED <<inputs, dirs, files, csvExists>>
    /\ UNCHANGED <<prevOutcome, ledger0, fileStart, started>>

\* The entry point of each program.
Entry(prog) ==
    CASE prog = "transcribe.py" -> "init_folder"
      [] prog = "split_video.py" -> "module_call"
      [] prog = "split_video_scenes" -> "s_makedirs"

\* The program is started: python transcribe.py folder --output out, python
\* split_video.py, or a call of split_video_scenes with its three arguments.
Invoke ==
    /\ pc = "idle"
    /\ pc' = Entry(program)
    /\ outcome' = "running"
    /\ prevOutcome' = outcome
    /\ ledger0' = ledger
    /\ fileStart' = ledger
    /\ started' = <<>>
    /\ UNCHANGED <<inputs, fsVars, locals, clean>>

----------------------------------------------------------------------------
\* transcribe.py

\* The header row init_folder writes.
TRANSCRIBE_HEADER ==
    << <<"v", "i", "d", "e", "o">>,
       <<"s", "c", "r", "e", "e", "n", "_", "n", "r">>,
       <<"s", "c", "e", "n", "e">>,
       <<"i", "m", "a", "g", "e">>,
       <<"s", "t", "a", "r", "t", "_", "t", "i", "m", "e">>,
       <<"e", "n", "d", "_", "t", "i", "m", "e">>,
       <<"t", "r", "a", "n", "s", "c", "r", "i", "p", "t", "i", "o", "n">> >>

\* The ledger file of transcribe.py exists only inside the output folder.
\* init_folder, output folder missing: os.makedirs(output_folder).
InitFolderMakedirs ==
    /\ pc = "init_folder"
    /\ OUT \notin dirs
    /\ dirs' = makedirs(dirs, OUT)
    /\ pc' = "init_videos"
    /\ UNCHANGED <<inputs, files, csvExists, ledger, locals, history>>

\* init_folder: os.makedirs(os.path.join(output_folder, "videos")).
InitFolderMakedirsVideos ==
    /\ pc = "init_videos"
    /\ dirs' = makedirs(dirs, join(OUT, VIDEOS))
    /\ pc' = "init_open"
    /\ UNCHANGED <<inputs, files, csvExists, ledger, locals, history>>

\* init_folder: open(file, "w") creates the empty ledger file.
InitFolderOpen ==
    /\ pc = "init_open"
    /\ csvExists' = TRUE
    /\ ledger' = <<>>
    /\ pc' = "init_header"
    /\ UNCHANGED <<inputs, dirs, files, locals, history>>

\* init_folder: the header row is written, the file closed, [] returned.
InitFolderWriteHeader ==
    /\ pc = "init_header"
    /\ ledger' = Append(ledger, TRANSCRIBE_HEADER)
    /\ done' = <<>>
    /\ pc' = "scan"
    /\ UNCHANGED <<inputs, dirs, files, csvExists, history>>
    /\ UNCHANGED <<processed_videos, vids, idx, scene_list, sc, rows, buf>>

\* init_folder, output folder present: the first column of every row of the
\* ledger, header included.  open(file, "r") raises when the file is missing.
InitFolderRead ==
    /\ pc = "init_folder"
    /\ OUT \in dirs
    /\ IF csvExists
       THEN /\ done' = [n \in 1..Len(ledger) |-> ledger[n][1]]
            /\ pc' = "scan"
            /\ UNCHANGED <<inputs, fsVars, history>>
            /\ UNCHANGED <<processed_videos, vids, idx, scene_list, sc, rows, buf>>
       ELSE EndRun("FileNotFoundError", ledger)

\* file in done, for the list done.
InList(x, l) == \E n \in 1..Len(l) : l[n] = x

\* A filter of transcribe.py's scanner that forgets one suffix.
TodoFilterForgetsMkv(file, doneList) ==
    /\ EndsWithAny(file, VIDEO_SUFFIXES \ {EXT_MKV})
    /\ ~InList(file, doneList)

\* Whether the scanner of transcribe.py appends file to todo.
TodoFilter(file, doneList) ==
    /\ EndsWithAny(file, VIDEO_SUFFIXES)
    /\ ~InList(file, doneList)

\* __main__: todo is the listing filtered, in the listing's order.
Scan ==
    /\ pc = "scan"
    /\ \E listing \in Listings(inputDir) :
           vids' = SelectSeq(listing, LAMBDA file : TodoFilter(file, done))
    /\ pc' = "main_open"
    /\ UNCHANGED <<inputs, fsVars, history>>
    /\ UNCHANGED <<done, processed_videos, idx, scene_list, sc, rows, buf>>

\* The mode main opens the ledger with, were it "w": the file is truncated.
MainOpenTruncates(onDisk) == <<>>

\* What open(output_csv, "a") leaves of the rows on disk.
MainOpenMode(onDisk) == onDisk

\* main: the ledger is opened for appending, for the whole invocation.
MainOpen ==
    /\ pc = "main_open"
    /\ csvExists' = TRUE
    /\ ledger' = MainOpenMode(ledger)
    /\ buf' = <<>>
    /\ idx' = 1
    /\ pc' = "next_file"
    /\ UNCHANGED <<inputs, dirs, files, history>>
    /\ UNCHANGED <<done, processed_videos, vids, scene_list, sc, rows>>

\* main: the file loop takes the next input file, or ends and the ledger is
\* closed, which puts the buffered rows on disk.
NextFile ==
    /\ pc = "next_file"
    /\ IF idx <= Len(vids)
       THEN /\ rows' = <<>>
            /\ pc' = "detect"
            /\ fileStart' = ledger \o buf
            /\ started' = Append(started, vids[idx])
            /\ UNCHANGED <<inputs, fsVars>>
            /\ UNCHANGED <<done, processed_videos, vids, idx, scene_list, sc, buf>>
            /\ UNCHANGED <<outcome, prevOutcome, clean, ledger0>>
       ELSE EndRun("completed", ledger \o buf)

\* scene_generator: the detector's scene list, start_in_scene=True.
Detect ==
    /\ pc = "detect"
    /\ scene_list' = get_scene_list(footage[vids[idx]], TRUE)
    /\ pc' = "video_dir"
    /\ UNCHANGED <<inputs, fsVars, history>>
    /\ UNCHANGED <<done, processed_videos, vids, idx, sc, rows, buf>>

file_name(input_file) == splitext(input_file)[1]
file_ext(input_file) == splitext(input_file)[2]
video_dir(input_file) == join(join(OUT, VIDEOS), file_name(input_file))
scenes_dir(input_file) == join(video_dir(input_file), SCENES)
audio_dir(input_file) == join(video_dir(input_file), AUDIO)
images_dir(input_file) == join(video_dir(input_file), IMAGES)
scene_nr(i) == zfill(str(i), 3)
scene_path(input_file, i) == join(scenes_dir(input_file), scene_nr(i) \o file_ext(input_file))
image_path(input_file, i) == join(images_dir(input_file), scene_nr(i) \o EXT_JPG)
audio_path(input_file, i) == join(audio_dir(input_file), scene_nr(i) \o EXT_MP3)

RECURSIVE WriteAll(_, _, _, _)
\* One file written per scene 1..k of input_file, scene i at paths[i].
WriteAll(fs, paths, input_file, k) ==
    IF k = 0 THEN fs
    ELSE WriteFile(WriteAll(fs, paths, input_file, k - 1), paths[k], <<input_file, k>>)

\* scene_generator: an existing per-video directory is removed, then the four
\* directories are made.
PrepareVideoDir ==
    /\ pc = "video_dir"
    /\ LET input_file == vids[idx]
           kept == rmtreeDirs(dirs, video_dir(input_file))
       IN /\ files' = rmtreeFiles(files, video_dir(input_file))
          /\ dirs' = makedirs(makedirs(makedirs(makedirs(kept, video_dir(input_file)),
                         scenes_dir(input_file)), images_dir(input_file)), audio_dir(input_file))
    /\ pc' = "save_images"
    /\ UNCHANGED <<inputs, csvExists, ledger, locals, history>>

\* scene_generator: save_images writes one image per scene.
SaveImages ==
    /\ pc = "save_images"
    /\ files' = WriteAll(files, [i \in 1..Len(scene_list) |-> image_path(vids[idx], i)], vids[idx], Len(scene_list))
    /\ pc' = "split"
    /\ UNCHANGED <<inputs, dirs, csvExists, ledger, locals, history>>

\* scene_generator: split_video_ffmpeg writes one clip per scene; the scene
\* loop starts, or there is no scene and the generator is exhausted.
SplitVideo ==
    /\ pc = "split"
    /\ files' = WriteAll(files, [i \in 1..Len(scene_list) |-> scene_path(vids[idx], i)], vids[idx], Len(scene_list))
    /\ sc' = 1
    /\ pc' = IF Len(scene_list) = 0 THEN "write_rows" ELSE "audio"
    /\ UNCHANGED <<inputs, dirs, csvExists, ledger, history>>
    /\ UNCHANGED <<done, processed_videos, vids, idx, scene_list, rows, buf>>

\* scene_generator: video_to_audio of the scene's clip, then the scene is
\* yielded.
VideoToAudio ==
    /\ pc = "audio"
    /\ files' = WriteFile(files, audio_path(vids[idx], sc), <<vids[idx], sc>>)
    /\ pc' = "transcribe"
    /\ UNCHANGED <<inputs, dirs, csvExists, ledger, locals, history>>

\* main: scene["transcription"] = res.get("text", "NO TRANSCRIPTION FOUND").
Transcription(res) == get(res, "text", NO_TRANSCRIPTION_FOUND)

\* main: the row appended to rows for scene i of input_file.
SceneRow(input_file, i, times, res) ==
    << input_file, scene_nr(i), scene_path(input_file, i), image_path(input_file, i),
       str(times[1]), str(times[2]), Transcription(res) >>

\* main: the transcriber is run on the scene's audio and the row is appended
\* to rows; then the generator resumes with the next scene or is exhausted.
Transcribe ==
    /\ pc = "transcribe"
    /\ rows' = Append(rows, SceneRow(vids[idx], sc, scene_list[sc], recognised))
    /\ IF sc < Len(scene_list)
       THEN sc' = sc + 1 /\ pc' = "audio"
       ELSE sc' = 1 /\ pc' = "write_rows"
    /\ UNCHANGED <<inputs, fsVars, history>>
    /\ UNCHANGED <<done, processed_videos, vids, idx, scene_list, buf>>

\* main: for row in rows: csv_writer.writerow(row), one row a step; after the
\* last row the file loop goes on.
WriteRow ==
    /\ pc = "write_rows"
    /\ IF sc <= Len(rows)
       THEN /\ buf' = Append(buf, rows[sc])
            /\ sc' = sc + 1
            /\ UNCHANGED <<pc, idx>>
       ELSE /\ idx' = idx + 1
            /\ pc' = "next_file"
            /\ UNCHANGED <<buf, sc>>
    /\ UNCHANGED <<inputs, fsVars, history>>
    /\ UNCHANGED <<done, processed_videos, vids, scene_list, rows>>

----------------------------------------------------------------------------
\* split_video.py

\* The header row split_video_scenes writes.
SPLIT_HEADER ==
    << <<"v", "i", "d", "e", "o", "_", "n", "a", "m", "e">>,
       <<"s", "c", "e", "n", "e", "_", "n", "u", "m", "b", "e", "r">>,
       <<"s", "t", "a", "r", "t", "_", "t", "i", "m", "e">>,
       <<"e", "n", "d", "_", "t", "i", "m", "e">> >>

images_output_folder == join(OUT, IMAGES)
video_output_folder == join(OUT, VIDEOS)
DASH_SCENE == <<"-", "S", "c", "e", "n", "e", "-">>

\* The parameters of split_video_scenes and the keywords of the call at the
\* end of the module.
Parameters == {"input_folder", "output_folder", "csv_file"}
ModuleCallKeywords == {"input_folder", "output_folder"}

\* The call at the end of split_video.py: Python binds the keywords to the
\* parameters and raises TypeError when a parameter without default is left.
ModuleCall ==
    /\ pc = "module_call"
    /\ IF Parameters \subseteq ModuleCallKeywords
       THEN /\ pc' = "s_makedirs"
            /\ UNCHANGED <<inputs, fsVars, locals, history>>
       ELSE EndRun("TypeError", ledger)

\* split_video_scenes: the three os.makedirs(..., exist_ok=True).
SplitMakedirs ==
    /\ pc = "s_makedirs"
    /\ dirs' = makedirs(makedirs(makedirs(dirs, OUT), images_output_folder), video_output_folder)
    /\ pc' = "s_csv"
    /\ UNCHANGED <<inputs, files, csvExists, ledger, locals, history>>

\* split_video_scenes: a missing ledger file is created, empty, by open "w".
SplitCreateCsv ==
    /\ pc = "s_csv"
    /\ IF csvExists
       THEN pc' = "s_read" /\ UNCHANGED <<csvExists, ledger>>
       ELSE pc' = "s_header" /\ csvExists' = TRUE /\ ledger' = <<>>
    /\ UNCHANGED <<inputs, dirs, files, locals, history>>

\* split_video_scenes: the header row is written and the file closed.
SplitWriteHeader ==
    /\ pc = "s_header"
    /\ ledger' = Append(ledger, SPLIT_HEADER)
    /\ pc' = "s_read"
    /\ UNCHANGED <<inputs, dirs, files, csvExists, locals, history>>

\* split_video_scenes: next(reader) skips the header and raises StopIteration
\* on a file without rows; the names are the first column of the other rows.
SplitReadCsv ==
    /\ pc = "s_read"
    /\ IF ledger = <<>>
       THEN EndRun("StopIteration", ledger)
       ELSE /\ processed_videos' = {ledger[n][1] : n \in 2..Len(ledger)}
            /\ pc' = "s_listdir"
            /\ UNCHANGED <<inputs, fsVars, history>>
            /\ UNCHANGED <<done, vids, idx, scene_list, sc, rows, buf>>

\* split_video_scenes: vids = os.listdir(input_folder).
SplitListdir ==
    /\ pc = "s_listdir"
    /\ vids' \in Listings(inputDir)
    /\ idx' = 1
    /\ pc' = "s_next"
    /\ UNCHANGED <<inputs, fsVars, history>>
    /\ UNCHANGED <<done, processed_videos, scene_list, sc, rows, buf>>

\* split_video_scenes: the test that skips a file of the listing.
Skip(video_file, processed) ==
    \/ ~EndsWithAny(video_file, VIDEO_SUFFIXES)
    \/ splitext(video_file)[1] \in processed

\* split_video_scenes: the file loop skips the file, starts on it, or ends.
SplitNextFile ==
    /\ pc = "s_next"
    /\ IF idx > Len(vids)
       THEN EndRun("completed", ledger)
       ELSE IF Skip(vids[idx], processed_videos)
            THEN /\ idx' = idx + 1
                 /\ UNCHANGED <<inputs, fsVars, pc, history>>
                 /\ UNCHANGED <<done, processed_videos, vids, scene_list, sc, rows, buf>>
            ELSE /\ pc' = "s_detect"
                 /\ fileStart' = ledger
                 /\ started' = Append(started, vids[idx])
                 /\ UNCHANGED <<inputs, fsVars, locals>>
                 /\ UNCHANGED <<outcome, prevOutcome, clean, ledger0>>

\* split_video_scenes: the detector's scene list, start_in_scene left False.
SplitDetect ==
    /\ pc = "s_detect"
    /\ scene_list' = get_scene_list(footage[vids[idx]], FALSE)
    /\ pc' = "s_images"
    /\ UNCHANGED <<inputs, fsVars, history>>
    /\ UNCHANGED <<done, processed_videos, vids, idx, sc, rows, buf>>

\* $VIDEO_NAME-Scene-$SCENE_NUMBER-$IMAGE_NUMBER in the images folder.
split_image_path(video_file, i) ==
    join(images_output_folder,
         splitext(video_file)[1] \o DASH_SCENE \o scene_nr(i) \o <<"-">> \o zfill(str(1), 2) \o EXT_JPG)

\* $VIDEO_NAME-Scene-$SCENE_NUMBER.mp4 in the videos folder.
split_clip_path(video_file, i) ==
    join(video_output_folder, splitext(video_file)[1] \o DASH_SCENE \o scene_nr(i) \o EXT_MP4)

\* split_video_scenes: save_images writes one image per scene.
SplitSaveImages ==
    /\ pc = "s_images"
    /\ files' = WriteAll(files, [i \in 1..Len(scene_list) |-> split_image_path(vids[idx], i)], vids[idx], Len(scene_list))
    /\ pc' = "s_split"
    /\ UNCHANGED <<inputs, dirs, csvExists, ledger, locals, history>>

\* split_video_scenes: split_video_ffmpeg writes one clip per scene.
SplitSplitVideo ==
    /\ pc = "s_split"
    /\ files' = WriteAll(files, [i \in 1..Len(scene_list) |-> split_clip_path(vids[idx], i)], vids[idx], Len(scene_list))
    /\ pc' = "s_append"
    /\ UNCHANGED <<inputs, dirs, csvExists, ledger, locals, history>>

\* split_video_scenes: the ledger is opened for appending.
SplitOpenAppend ==
    /\ pc = "s_append"
    /\ buf' = <<>>
    /\ sc' = 1
    /\ pc' = "s_rows"
    /\ UNCHANGED <<inputs, fsVars, history>>
    /\ UNCHANGED <<done, processed_videos, vids, idx, scene_list, rows>>

\* split_video_scenes: the row of scene i (enumerate's idx + 1).
SplitRow(video_file, i, times) ==
    << splitext(video_file)[1], str(i), str(times[1]), str(times[2]) >>

\* split_video_scenes: one writerow a step; after the last scene the file is
\* closed, which puts the rows on disk, and the file loop goes on.
SplitWriteRow ==
    /\ pc = "s_rows"
    /\ IF sc <= Len(scene_list)
       THEN /\ buf' = Append(buf, SplitRow(vids[idx], sc, scene_list[sc]))
            /\ sc' = sc + 1
            /\ UNCHANGED <<pc, idx, ledger>>
       ELSE /\ ledger' = ledger \o buf
            /\ buf' = <<>>
            /\ idx' = idx + 1
            /\ pc' = "s_next"
            /\ UNCHANGED sc
    /\ UNCHANGED <<inputs, dirs, files, csvExists, history>>
    /\ UNCHANGED <<done, processed_videos, vids, scene_list, rows>>

----------------------------------------------------------------------------
\* Failures

\* The steps that call a collaborator: detector, image extractor, splitter,
\* audio demuxer, speech recogniser.
CollaboratorSteps ==
    {"detect", "save_images", "split", "audio", "transcribe", "s_detect", "s_images", "s_split"}

\* A collaborator raises: the error propagates, a ledger opened in a with
\* block is closed on the way out, and the process ends.
CollaboratorFails ==
    /\ pc \in CollaboratorSteps
    /\ EndRun("CollaboratorError", ledger \o buf)

\* The process is interrupted where it stands.  An exception or a
\* KeyboardInterrupt closes the ledger and every buffered row reaches the
\* disk; a kill leaves on disk what the buffer had handed over so far.
Interrupt ==
    /\ pc # "idle"
    /\ \E n \in 0..Len(buf) : EndRun("interrupted", ledger \o SubSeq(buf, 1, n))

Next ==
    \/ Invoke
    \/ InitFolderMakedirs
    \/ InitFolderMakedirsVideos
    \/ InitFolderOpen
    \/ InitFolderWriteHeader
    \/ InitFolderRead
    \/ Scan
    \/ MainOpen
    \/ NextFile
    \/ Detect
    \/ PrepareVideoDir
    \/ SaveImages
    \/ SplitVideo
    \/ VideoToAudio
    \/ Transcribe
    \/ WriteRow
    \/ ModuleCall
    \/ SplitMakedirs
    \/ SplitCreateCsv
    \/ SplitWriteHeader
    \/ SplitReadCsv
    \/ SplitListdir
    \/ SplitNextFile
    \/ SplitDetect
    \/ SplitSaveImages
    \/ SplitSplitVideo
    \/ SplitOpenAppend
    \/ SplitWriteRow
    \/ CollaboratorFails
    \/ Interrupt

Spec == Init /\ [][Next]_vars

----------------------------------------------------------------------------
\* Vocabulary of the properties

IsPrefix(a, b) == Len(a) <= Len(b) /\ SubSeq(b, 1, Len(a)) = a

Range(l) == {l[n] : n \in 1..Len(l)}

NoRepeats(l) == \A m, n \in 1..Len(l) : l[m] = l[n] => m = n

\* The rows of a ledger that are not a header.  (A ledger of transcribe.py
\* whose creation was interrupted before the header was written has none.)
Body(l) == SelectSeq(l, LAMBDA r : r \notin {TRANSCRIBE_HEADER, SPLIT_HEADER})

\* The rows of a ledger's body whose first column is name.
RowsNamed(l, name) == SelectSeq(Body(l), LAMBDA r : r[1] = name)

RECURSIVE ToNat(_)
\* The number a string of digits reads as.
ToNat(s) ==
    IF s = <<>> THEN 0
    ELSE 10 * ToNat(SubSeq(s, 1, Len(s) - 1))
         + (CHOOSE d \in 0..9 : Digits[d + 1] = s[Len(s)])

\* The name under which a program logs an input file: transcribe.py the file
\* name, split_video_scenes the name without its extension.
LedgerName(file) ==
    IF program = "transcribe.py" THEN file ELSE splitext(file)[1]

\* The names a ledger holds as processed, as each program reads them.
ProcessedSet(l) ==
    IF program = "transcribe.py"
    THEN {l[n][1] : n \in 1..Len(l)}
    ELSE {l[n][1] : n \in 2..Len(l)}

\* The scenes the program detects in an input file.
ScenesOf(file) == get_scene_list(footage[file], program = "transcribe.py")

\* The input files that are videos by their suffix.
Videos == {f \in inputDir : \E suf \in {EXT_MP4, EXT_AVI, EXT_MOV, EXT_MKV} : EndsWith(f, suf)}

\* The artifact files made from an input file.
ArtifactsOf(file, fs) == {x \in fs : x.from[1] = file}

\* The errors an invocation's reading of its ledger ends in.
InitialisationErrors == {"FileNotFoundError", "StopIteration"}

----------------------------------------------------------------------------
\* Properties

\* C1: whenever an invocation has ended, however it ended, no video has only
\* a proper subset of its scene rows in the ledger: each video has none of
\* its rows or all of them.  (Stated of the videos that share their ledger
\* name with no other video, whose rows the ledger tells apart.)
C1_AllOrNothing ==
    pc = "idle" =>
        \A f \in Videos :
            (\A g \in Videos : LedgerName(g) = LedgerName(f) => g = f) =>
                LET n == Len(RowsNamed(ledger, LedgerName(f)))
                IN n = 0 \/ n = Len(ScenesOf(f))

\* C2: an invocation that follows an interrupted one starts successfully
\* (it does not end in an error of its initialisation), an invocation that
\* completes has taken up every video that was not logged when it started,
\* and a name that was in the ledger when an invocation started is still
\* in it.
C2_CrashRecovery ==
    /\ prevOutcome = "interrupted" => outcome \notin InitialisationErrors
    /\ outcome = "completed" =>
           \A f \in Videos : LedgerName(f) \notin ProcessedSet(ledger0) => f \in Range(started)
    /\ ProcessedSet(ledger0) \subseteq ProcessedSet(ledger)

\* C3: no step of an invocation adds a ledger row for a video that was
\* logged when the invocation started, nor creates, deletes or overwrites an
\* artifact of it; and an invocation that completes right after one that
\* completed leaves the ledger as it found it.
C3_Idempotence ==
    /\ [][ pc # "idle" =>
             \A f \in Videos :
                 LedgerName(f) \in ProcessedSet(ledger0) =>
                     /\ ArtifactsOf(f, files') = ArtifactsOf(f, files)
                     /\ RowsNamed(ledger', LedgerName(f)) = RowsNamed(ledger, LedgerName(f)) ]_vars
    /\ [](prevOutcome = "completed" /\ outcome = "completed" => ledger = ledger0)

\* C4, as claimed: the to-do list holds, each once, exactly the files whose
\* extension is a video extension and whose bare name is not in the
\* ledger's processed set.
C4_ScannerByBareName ==
    LET expected == {f \in inputDir :
                        /\ splitext(f)[2] \in {EXT_MP4, EXT_AVI, EXT_MOV, EXT_MKV}
                        /\ splitext(f)[1] \notin ProcessedSet(ledger0)}
    IN /\ pc = "main_open" => NoRepeats(vids) /\ Range(vids) = expected
       /\ program = "split_video_scenes" =>
              /\ NoRepeats(started) /\ Range(started) \subseteq expected
              /\ outcome = "completed" => Range(started) = expected

\* C4, amended: the to-do list holds, each once, exactly the files whose
\* name ends with a video suffix and whose ledger name (the file name in
\* transcribe.py, the bare name in split_video_scenes) is not in the
\* ledger's processed set; no other file is processed.
C4_Scanner ==
    LET expected == {f \in Videos : LedgerName(f) \notin ProcessedSet(ledger0)}
    IN /\ pc = "main_open" => NoRepeats(vids) /\ Range(vids) = expected
       /\ NoRepeats(started) /\ Range(started) \subseteq expected
       /\ outcome = "completed" => Range(started) = expected

\* C4 happens: a completed invocation that found a video logged and skipped
\* it, and took up another video.
C4_Witness ==
    /\ outcome = "completed"
    /\ Len(ledger0) > 1
    /\ started # <<>>
    /\ \E f \in Videos : f \notin Range(started)

\* C5: in transcribe.py every row of a scene whose recognition result has
\* empty text or no text holds NO TRANSCRIPTION FOUND as its transcription.
C5_Sentinel ==
    program = "transcribe.py" /\ get(recognised, "text", <<>>) = <<>> =>
        \A r \in Range(Body(ledger)) : r[7] = NO_TRANSCRIPTION_FOUND

\* C6: the ledger an invocation started with is, row for row, the beginning
\* of the ledger at every later moment of the invocation and at its end; and
\* when a collaborator failed on a file, the ledger holds exactly the rows
\* written before that file was taken up.
C6_AppendOnly ==
    /\ IsPrefix(ledger0, ledger)
    /\ outcome = "CollaboratorError" => ledger = fileStart

\* C6 happens: an invocation failed on one video after logging another, and
\* the next invocation, starting from that ledger, appended the failed
\* video's rows.
C6_Witness ==
    /\ prevOutcome = "CollaboratorError"
    /\ outcome = "completed"
    /\ Len(ledger0) > 1
    /\ Len(ledger) > Len(ledger0)

\* C7: for every name in the ledger, the scene numbers of its rows, in ledger
\* order, are 1, 2, ..., k and their start times increase.
C7_SceneNumbering ==
    \A name \in {r[1] : r \in Range(Body(ledger))} :
        LET r == RowsNamed(ledger, name)
            start == IF program = "transcribe.py" THEN 5 ELSE 3
        IN \A j \in 1..Len(r) :
               /\ ToNat(r[j][2]) = j
               /\ j > 1 => ToNat(r[j - 1][start]) < ToNat(r[j][start])

\* C8: split_video.py, run on a folder with one video of k scenes and one
\* file that is no video, ends normally with k clips, k images and a ledger
\* of k rows that all carry the video's bare name, and nothing made from the
\* other file.
C8_EndToEnd ==
    /\ program = "split_video.py"
    /\ inputDir = {NAME_A \o EXT_MP4, NAME_NOTES \o EXT_TXT}
    /\ pc = "idle"
    /\ outcome \notin {"none", "interrupted", "CollaboratorError"}
    => /\ outcome = "completed"
       /\ LET k == Len(ScenesOf(NAME_A \o EXT_MP4))
          IN /\ Cardinality({f \in files : IsUnder(f.path, video_output_folder)}) = k
             /\ Cardinality({f \in files : IsUnder(f.path, images_output_folder)}) = k
             /\ Len(Body(ledger)) = k
             /\ \A r \in Range(Body(ledger)) : r[1] = NAME_A
             /\ ArtifactsOf(NAME_NOTES \o EXT_TXT, files) = {}

\* C9: after an invocation that completed, every video of the input folder
\* is in the ledger's processed set, whatever scene list the detector gave.
C9_Convergence ==
    outcome = "completed" =>
        \A f \in Videos : LedgerName(f) \in ProcessedSet(ledger)

\* C10: in transcribe.py, when every invocation so far has completed, every
\* row of the ledger names a clip and an image that exist and were made from
\* that row's video.
C10_LedgerArtifacts ==
    program = "transcribe.py" /\ clean /\ pc = "idle" =>
        \A r \in Range(Body(ledger)) :
            /\ \E f \in files : f.path = r[3] /\ f.from[1] = r[1]
            /\ \E f \in files : f.path = r[4] /\ f.from[1] = r[1]

====
